---- MODULE Spec2Model ----
(***************************************************************************)
(* A model of the two Python files of the repository:                      *)
(*   src/test-python/main.py            get_user_data, process_data,       *)
(*                                      UserView.handle_request            *)
(*   src/savepoints/.../test-python-error.py   bad_function, BadClass      *)
(*                                                                         *)
(* Python values are tagged records [t, s, n]: a str carries its code      *)
(* points in s, an int its value in n, None neither.  A dict is a function *)
(* from its keys to values.  A str is a sequence of one-character strings; *)
(* the character "sz" stands for U+00DF, whose upper-casing is two         *)
(* characters long.                                                        *)
(***************************************************************************)
EXTENDS Integers, Sequences, FiniteSets, TLC

VARIABLES
    pd_pc,       \* process_data call: "ready" or "done"
    pd_data,     \* the argument object of the process_data call
    pd_arg0,     \* the argument as it was when the call began
    pd_outcome   \* what the call produced: a return value or an exception

pdvars == <<pd_pc, pd_data, pd_arg0, pd_outcome>>

VARIABLES
    v_pc,        \* position inside UserView.handle_request
    v_request,   \* request.GET of the request being handled: a dict of query parameters
    v_user_id,   \* local user_id of handle_request / parameter of get_user_data
    v_body,      \* the HTTP response requests.get returned
    v_data,      \* local data: what response.json() returned
    v_processed, \* local processed
    v_trace,     \* the calls made while handling the current request, in order
    v_outcome,   \* what handle_request gave its caller
    v_handled    \* number of requests handled so far

viewvars == <<v_pc, v_request, v_user_id, v_body, v_data, v_processed, v_trace,
              v_outcome, v_handled>>

VARIABLES
    b_pc,        \* "idle", or the position inside BadClass.method
    heap,        \* the list objects allocated so far; an object's identity is its index
    b_frame,     \* the local names of the running BadClass.method call
    b_ret,       \* the value the latest call returned
    b_last,      \* the latest completed operation
    held,        \* identities of the lists method has returned, in order of return
    stdout,      \* the lines printed
    b_mut,       \* number of changes callers have made to lists they were handed
    globals_ns,  \* the module's global names
    builtins_ns  \* the builtins namespace

badvars == <<b_pc, heap, b_frame, b_ret, b_last, held, stdout, b_mut, globals_ns,
             builtins_ns>>

vars == <<pdvars, viewvars, badvars>>

(***************************************************************************)
(* Bounds.                                                                 *)
(***************************************************************************)
MaxLen == 2      \* longest str value enumerated as an input
MaxRequests == 2 \* requests handled in one run of the view
MaxObjects == 3  \* calls of BadClass.method in one run
MaxPrints == 2   \* calls of bad_function in one run
MaxMutations == 2 \* changes callers make to the lists they were handed

(***************************************************************************)
(* Python values.                                                          *)
(***************************************************************************)
StrV(chars) == [t |-> "str", s |-> chars, n |-> 0]
IntV(k) == [t |-> "int", s |-> <<>>, n |-> k]
NoneV == [t |-> "none", s |-> <<>>, n |-> 0]

Chars == {"a", "B", "sz"}

RECURSIVE SeqsUpTo(_, _)
SeqsUpTo(S, k) ==
    IF k = 0 THEN {<<>>}
    ELSE LET shorter == SeqsUpTo(S, k - 1)
         IN  shorter \cup {Append(w, c) : w \in {x \in shorter : Len(x) = k - 1}, c \in S}

Strings == SeqsUpTo(Chars, MaxLen)

Ints == {-12, 0, 7, 130}

Values == {StrV(w) : w \in Strings} \cup {IntV(k) : k \in Ints} \cup {NoneV}

\* str.upper() of one character
UpperChar(c) ==
    CASE c = "a" -> <<"A">>
      [] c = "sz" -> <<"S", "S">>
      [] OTHER -> <<c>>

\* str.lower() of one character
LowerChar(c) ==
    CASE c = "B" -> <<"b">>
      [] OTHER -> <<c>>

RECURSIVE Upper(_)
Upper(w) == IF w = <<>> THEN <<>> ELSE UpperChar(Head(w)) \o Upper(Tail(w))

RECURSIVE Lower(_)
Lower(w) == IF w = <<>> THEN <<>> ELSE LowerChar(Head(w)) \o Lower(Tail(w))

DigitChars == <<"0", "1", "2", "3", "4", "5", "6", "7", "8", "9">>

RECURSIVE NatStr(_)
NatStr(k) ==
    IF k < 10 THEN <<DigitChars[k + 1]>>
    ELSE NatStr(k \div 10) \o <<DigitChars[(k % 10) + 1]>>

\* str(k) of an int
IntStr(k) == IF k < 0 THEN <<"-">> \o NatStr(-k) ELSE NatStr(k)

\* str(v) of any value
PyStr(v) ==
    CASE v.t = "str" -> v.s
      [] v.t = "int" -> IntStr(v.n)
      [] OTHER -> <<"N", "o", "n", "e">>

(***************************************************************************)
(* Objects a caller can pass as data: a dict, or something that is not a   *)
(* mapping (a list, as json() returns for a JSON array).                   *)
(***************************************************************************)
Keys == {"name", "email", "age"}

DictObj(m) == [k |-> "dict", m |-> m]
ListObj == [k |-> "list", m |-> <<>>]

DictsOver(Vs) == UNION {[D -> Vs] : D \in SUBSET Keys}

\* dict.get(key, default)
DictGet(m, key, default) == IF key \in DOMAIN m THEN m[key] ELSE default

(***************************************************************************)
(* Outcomes of a call.                                                     *)
(***************************************************************************)
NoOutcome == [kind |-> "none", val |-> <<>>, exc |-> "", attr |-> ""]
Return(chars) == [kind |-> "return", val |-> chars, exc |-> "", attr |-> ""]
Raise(e, a) == [kind |-> "raise", val |-> <<>>, exc |-> e, attr |-> a]

Sep == <<" ", "-", " ">>
YearsOld == <<" ", "y", "e", "a", "r", "s", " ", "o", "l", "d">>

\* process_data with email upper-cased like name
ProcessDataUpperEmail(data) ==
    IF data.k # "dict" THEN Raise("AttributeError", "get")
    ELSE LET name == DictGet(data.m, "name", StrV(<<>>))
             email == DictGet(data.m, "email", StrV(<<>>))
             age == DictGet(data.m, "age", IntV(0))
         IN  IF name.t # "str" THEN Raise("AttributeError", "upper")
             ELSE IF email.t # "str" THEN Raise("AttributeError", "lower")
             ELSE Return(Upper(name.s) \o Sep \o Upper(email.s) \o Sep
                         \o PyStr(age) \o YearsOld)

\* process_data(data): the operands are evaluated left to right, so a name
\* without upper() raises before email is looked at.
ProcessData(data) ==
    IF data.k # "dict" THEN Raise("AttributeError", "get")
    ELSE LET name == DictGet(data.m, "name", StrV(<<>>))
             email == DictGet(data.m, "email", StrV(<<>>))
             age == DictGet(data.m, "age", IntV(0))
         IN  IF name.t # "str" THEN Raise("AttributeError", "upper")
             ELSE IF email.t # "str" THEN Raise("AttributeError", "lower")
             ELSE Return(Upper(name.s) \o Sep \o Lower(email.s) \o Sep
                         \o PyStr(age) \o YearsOld)

(***************************************************************************)
(* bad_function and BadClass.method.                                       *)
(***************************************************************************)
Binding(kind, id) == [kind |-> kind, id |-> id]

BuiltinList == Binding("builtin_list", 0)
BuiltinPrint == Binding("builtin_print", 0)

\* name lookup: local, then global, then builtin
Resolve(name, frame) ==
    IF name \in DOMAIN frame THEN frame[name]
    ELSE IF name \in DOMAIN globals_ns THEN globals_ns[name]
    ELSE builtins_ns[name]

BadIdle ==
    /\ b_pc = "idle"
    /\ heap = <<>>
    /\ b_frame = <<>>
    /\ b_ret = Binding("none", 0)
    /\ b_last = "none"
    /\ held = <<>>
    /\ stdout = <<>>
    /\ b_mut = 0
    /\ globals_ns = [n \in {"bad_function", "BadClass"} |-> Binding("def", 0)]
    /\ builtins_ns = [n \in {"list", "print"} |->
                         IF n = "list" THEN BuiltinList ELSE BuiltinPrint]

\* bad_function(): unused_variable and x are locals that end with the call
CallBadFunction ==
    /\ b_pc = "idle"
    /\ Len(stdout) < MaxPrints
    /\ LET unused_variable == 42
           x == 1 + 2
       IN  /\ stdout' = Append(stdout, "hello world")
           /\ b_ret' = Binding("int", x)
    /\ b_last' = "bad_function"
    /\ UNCHANGED <<b_pc, heap, b_frame, held, b_mut, globals_ns, builtins_ns>>
    /\ UNCHANGED <<pdvars, viewvars>>

\* BadClass().method(): the call begins with no local names
MethodEnter ==
    /\ b_pc = "idle"
    /\ Len(heap) < MaxObjects
    /\ b_frame' = <<>>
    /\ b_pc' = "entered"
    /\ UNCHANGED <<heap, b_ret, b_last, held, stdout, b_mut, globals_ns, builtins_ns>>
    /\ UNCHANGED <<pdvars, viewvars>>

\* method with one list kept and handed out again by every call
MethodAssignShared ==
    /\ b_pc = "entered"
    /\ IF heap = <<>>
       THEN /\ heap' = Append(heap, <<1, 2, 3, 4, 5>>)
            /\ b_frame' = [n \in {"list"} |-> Binding("ref", Len(heap) + 1)]
       ELSE /\ heap' = heap
            /\ b_frame' = [n \in {"list"} |-> Binding("ref", 1)]
    /\ b_pc' = "assigned"
    /\ UNCHANGED <<b_ret, b_last, held, stdout, b_mut, globals_ns, builtins_ns>>
    /\ UNCHANGED <<pdvars, viewvars>>

\* list = [1,2,3,4,5]: the display builds a list object; the name is assigned
\* in the function, so it is a local of this call
MethodAssign ==
    /\ b_pc = "entered"
    /\ heap' = Append(heap, <<1, 2, 3, 4, 5>>)
    /\ b_frame' = [n \in {"list"} |-> Binding("ref", Len(heap) + 1)]
    /\ b_pc' = "assigned"
    /\ UNCHANGED <<b_ret, b_last, held, stdout, b_mut, globals_ns, builtins_ns>>
    /\ UNCHANGED <<pdvars, viewvars>>

\* return list: the local's value goes to the caller, the locals end
MethodReturn ==
    /\ b_pc = "assigned"
    /\ b_ret' = Resolve("list", b_frame)
    /\ held' = Append(held, Resolve("list", b_frame).id)
    /\ b_frame' = <<>>
    /\ b_last' = "method"
    /\ b_pc' = "idle"
    /\ UNCHANGED <<heap, stdout, b_mut, globals_ns, builtins_ns>>
    /\ UNCHANGED <<pdvars, viewvars>>

\* a caller appends to a list it was handed
CallerAppend ==
    /\ b_pc = "idle"
    /\ b_mut < MaxMutations
    /\ \E i \in 1..Len(held) :
          heap' = [heap EXCEPT ![held[i]] = Append(@, 9)]
    /\ b_mut' = b_mut + 1
    /\ b_last' = "caller"
    /\ UNCHANGED <<b_pc, b_frame, b_ret, held, stdout, globals_ns, builtins_ns>>
    /\ UNCHANGED <<pdvars, viewvars>>

\* a caller removes the last element of a list it was handed
CallerPop ==
    /\ b_pc = "idle"
    /\ b_mut < MaxMutations
    /\ \E i \in 1..Len(held) :
          /\ heap[held[i]] # <<>>
          /\ heap' = [heap EXCEPT ![held[i]] = SubSeq(@, 1, Len(@) - 1)]
    /\ b_mut' = b_mut + 1
    /\ b_last' = "caller"
    /\ UNCHANGED <<b_pc, b_frame, b_ret, held, stdout, globals_ns, builtins_ns>>
    /\ UNCHANGED <<pdvars, viewvars>>

\* no process_data call of its own is in progress
PDIdle ==
    /\ pd_pc = "done"
    /\ pd_data = ListObj
    /\ pd_arg0 = ListObj
    /\ pd_outcome = NoOutcome

(***************************************************************************)
(* UserView.handle_request and get_user_data.                              *)
(***************************************************************************)
NoneObj == [k |-> "none", m |-> <<>>]

Event(name, text, obj, fail) == [ev |-> name, text |-> text, obj |-> obj, fail |-> fail]

\* the ids a query string carries: empty, a digit, and the text "None"
IdStrings == {<<>>, <<"7">>, <<"N", "o", "n", "e">>}

\* request.GET: with or without an 'id' parameter
Requests == UNION {[D -> {StrV(w) : w \in IdStrings}] : D \in SUBSET {"id"}}

\* f"https://api.example.com/users/{user_id}"
UsersUrl(user_id) == <<"https://api.example.com/users/">> \o PyStr(user_id)

\* f"Getting data for user {user_id}"
DebugLine(user_id) == <<"Getting data for user ">> \o PyStr(user_id)

\* what the network can do to requests.get: raise, or deliver a response whose
\* body is or is not JSON; a JSON body decodes to a dict, a list or None
SampleValues == {StrV(<<>>), StrV(<<"a", "sz">>), IntV(7), NoneV}
JsonDocs == {DictObj(m) : m \in DictsOver(SampleValues)} \cup {ListObj, NoneObj}
NoBody == [valid |-> FALSE, obj |-> NoneObj]
Bodies == {[valid |-> TRUE, obj |-> d] : d \in JsonDocs} \cup {NoBody}
NetFailures == {"ConnectionError", "Timeout"}

ViewIdle ==
    /\ v_pc = "idle"
    /\ v_request = <<>>
    /\ v_user_id = NoneV
    /\ v_body = NoBody
    /\ v_data = NoneObj
    /\ v_processed = <<>>
    /\ v_trace = <<>>
    /\ v_outcome = NoOutcome
    /\ v_handled = 0

\* a caller invokes handle_request(request)
Receive ==
    /\ v_pc = "idle"
    /\ v_handled < MaxRequests
    /\ v_request' \in Requests
    /\ v_user_id' = NoneV
    /\ v_body' = NoBody
    /\ v_data' = NoneObj
    /\ v_processed' = <<>>
    /\ v_trace' = <<>>
    /\ v_outcome' = NoOutcome
    /\ v_pc' = "read_id"
    /\ UNCHANGED v_handled
    /\ UNCHANGED <<pdvars, badvars>>

\* user_id = request.GET.get('id')
ReadId ==
    /\ v_pc = "read_id"
    /\ v_user_id' = DictGet(v_request, "id", NoneV)
    /\ v_trace' = Append(v_trace, Event("read_id", <<>>, NoneObj, ""))
    /\ v_pc' = "call"
    /\ UNCHANGED <<v_request, v_body, v_data, v_processed, v_outcome, v_handled>>
    /\ UNCHANGED <<pdvars, badvars>>

\* data = get_user_data(user_id): entry and the debug print
EnterGetUserData ==
    /\ v_pc = "call"
    /\ v_trace' = v_trace \o <<Event("get_user_data", PyStr(v_user_id), NoneObj, ""),
                               Event("print", DebugLine(v_user_id), NoneObj, "")>>
    /\ v_pc' = "http"
    /\ UNCHANGED <<v_request, v_user_id, v_body, v_data, v_processed, v_outcome, v_handled>>
    /\ UNCHANGED <<pdvars, badvars>>

\* response = requests.get(url): no try/except anywhere, so an exception of
\* requests.get leaves get_user_data and handle_request at once
HttpGet ==
    /\ v_pc = "http"
    /\ \/ \E e \in NetFailures :
            /\ v_trace' = Append(v_trace, Event("http_get", UsersUrl(v_user_id), NoneObj, e))
            /\ v_outcome' = Raise(e, "")
            /\ v_pc' = "raised"
            /\ UNCHANGED v_body
       \/ \E b \in Bodies :
            /\ v_trace' = Append(v_trace, Event("http_get", UsersUrl(v_user_id), NoneObj, ""))
            /\ v_body' = b
            /\ v_pc' = "json"
            /\ UNCHANGED v_outcome
    /\ UNCHANGED <<v_request, v_user_id, v_data, v_processed, v_handled>>
    /\ UNCHANGED <<pdvars, badvars>>

\* handle_request with a decoding failure turned into empty data
JsonDecodeSwallow ==
    /\ v_pc = "json"
    /\ v_trace' = Append(v_trace, Event("json", <<>>, NoneObj, ""))
    /\ v_data' = IF v_body.valid THEN v_body.obj ELSE DictObj(<<>>)
    /\ v_pc' = "process"
    /\ UNCHANGED <<v_request, v_user_id, v_body, v_processed, v_outcome, v_handled>>
    /\ UNCHANGED <<pdvars, badvars>>

\* return response.json()
JsonDecode ==
    /\ v_pc = "json"
    /\ IF v_body.valid
       THEN /\ v_trace' = Append(v_trace, Event("json", <<>>, NoneObj, ""))
            /\ v_data' = v_body.obj
            /\ v_pc' = "process"
            /\ UNCHANGED v_outcome
       ELSE /\ v_trace' = Append(v_trace, Event("json", <<>>, NoneObj, "JSONDecodeError"))
            /\ v_outcome' = Raise("JSONDecodeError", "")
            /\ v_pc' = "raised"
            /\ UNCHANGED v_data
    /\ UNCHANGED <<v_request, v_user_id, v_body, v_processed, v_handled>>
    /\ UNCHANGED <<pdvars, badvars>>

\* processed = process_data(data)
Process ==
    /\ v_pc = "process"
    /\ LET r == ProcessData(v_data)
       IN  IF r.kind = "return"
           THEN /\ v_trace' = Append(v_trace, Event("process_data", <<>>, v_data, ""))
                /\ v_processed' = r.val
                /\ v_pc' = "respond"
                /\ UNCHANGED v_outcome
           ELSE /\ v_trace' = Append(v_trace, Event("process_data", <<>>, v_data, r.exc))
                /\ v_outcome' = r
                /\ v_pc' = "raised"
                /\ UNCHANGED v_processed
    /\ UNCHANGED <<v_request, v_user_id, v_body, v_data, v_handled>>
    /\ UNCHANGED <<pdvars, badvars>>

\* return HttpResponse(processed)
Respond ==
    /\ v_pc = "respond"
    /\ v_trace' = Append(v_trace, Event("HttpResponse", v_processed, NoneObj, ""))
    /\ v_outcome' = [kind |-> "response", val |-> v_processed, exc |-> "", attr |-> ""]
    /\ v_pc' = "returned"
    /\ UNCHANGED <<v_request, v_user_id, v_body, v_data, v_processed, v_handled>>
    /\ UNCHANGED <<pdvars, badvars>>

\* the caller has the response or the exception; the view is ready for the next request
Finish ==
    /\ v_pc \in {"returned", "raised"}
    /\ v_pc' = "idle"
    /\ v_handled' = v_handled + 1
    /\ UNCHANGED <<v_request, v_user_id, v_body, v_data, v_processed, v_trace, v_outcome>>
    /\ UNCHANGED <<pdvars, badvars>>

ViewInit == ViewIdle /\ PDIdle /\ BadIdle

ViewNext ==
    \/ Receive
    \/ ReadId
    \/ EnterGetUserData
    \/ HttpGet
    \/ JsonDecode
    \/ Process
    \/ Respond
    \/ Finish

SpecView == ViewInit /\ [][ViewNext]_vars

(***************************************************************************)
(* SpecBad: calls of bad_function and BadClass.method, with callers that   *)
(* change the lists they were handed.                                      *)
(***************************************************************************)
BadInit == BadIdle /\ PDIdle /\ ViewIdle

BadNext ==
    \/ CallBadFunction
    \/ MethodEnter
    \/ MethodAssign
    \/ MethodReturn
    \/ CallerAppend
    \/ CallerPop

SpecBad == BadInit /\ [][BadNext]_vars

(***************************************************************************)
(* SpecProcess: one call of process_data on every enumerated argument.     *)
(***************************************************************************)
PDArgs == {DictObj(m) : m \in DictsOver(Values)} \cup {ListObj}

PDInit ==
    /\ pd_pc = "ready"
    /\ pd_data \in PDArgs
    /\ pd_arg0 = pd_data
    /\ pd_outcome = NoOutcome
    /\ ViewIdle
    /\ BadIdle

\* process_data reads data through get() only; it assigns nothing to it.
CallProcessData ==
    /\ pd_pc = "ready"
    /\ pd_outcome' = ProcessData(pd_data)
    /\ pd_pc' = "done"
    /\ UNCHANGED <<pd_data, pd_arg0>>
    /\ UNCHANGED <<viewvars, badvars>>

PDNext == CallProcessData

SpecProcess == PDInit /\ [][PDNext]_vars

(***************************************************************************)
(* Properties of UserView.handle_request (SpecView).                       *)
(***************************************************************************)
StepOrder == <<"read_id", "get_user_data", "http_get", "json", "process_data",
               "HttpResponse">>

NotPrint(e) == e.ev # "print"

\* the calls of the current request that the order is about (all but the debug print)
Steps == SelectSeq(v_trace, NotPrint)

StepNames == [i \in 1..Len(Steps) |-> Steps[i].ev]

IsPrefix(a, b) == Len(a) <= Len(b) /\ a = SubSeq(b, 1, Len(a))

\* the text of the 'id' query parameter, "None" when there is none
IdText == IF "id" \in DOMAIN v_request THEN v_request["id"].s ELSE <<"N", "o", "n", "e">>

Completed == v_pc \in {"returned", "raised"}

\* C8 as stated: every request ends in a response after all six steps, each
\* once and in order, unless the HTTP GET or the JSON decoding failed, and then
\* that failure reaches the caller.
C8_AsStated ==
    Completed =>
        \/ /\ v_pc = "returned"
           /\ StepNames = StepOrder
        \/ /\ v_pc = "raised"
           /\ Steps[Len(Steps)].ev \in {"http_get", "json"}
           /\ v_outcome.exc = Steps[Len(Steps)].fail

\* C8 (amended): handle_request reads 'id' (None when absent, passed on
\* unvalidated), calls get_user_data, which issues one HTTP GET to the users URL
\* of that id, calls process_data on the decoded JSON and returns an
\* HttpResponse wrapping the processed string, in this order and each at most
\* once; a failure of the HTTP GET, of the JSON decoding or of process_data
\* reaches the caller as it was raised, with no retry and no response.
C8_HandleRequestOrder ==
    /\ IsPrefix(StepNames, StepOrder)
    /\ v_pc \notin {"idle", "read_id"} =>
           v_user_id = (IF "id" \in DOMAIN v_request THEN v_request["id"] ELSE NoneV)
    /\ \A i \in 1..Len(Steps) :
           /\ Steps[i].ev = "get_user_data" => Steps[i].text = IdText
           /\ Steps[i].ev = "http_get" =>
                  Steps[i].text = <<"https://api.example.com/users/">> \o IdText
           /\ Steps[i].ev = "process_data" => v_body.valid /\ Steps[i].obj = v_body.obj
           /\ Steps[i].ev = "HttpResponse" =>
                  /\ ProcessData(v_body.obj).kind = "return"
                  /\ Steps[i].text = ProcessData(v_body.obj).val
           /\ Steps[i].fail # "" => i = Len(Steps) /\ v_pc \in {"raised", "idle"}
    /\ v_pc = "returned" =>
           /\ StepNames = StepOrder
           /\ v_outcome.kind = "response"
           /\ v_outcome.val = Steps[Len(Steps)].text
    /\ v_pc = "raised" =>
           /\ Steps[Len(Steps)].ev \in {"http_get", "json", "process_data"}
           /\ v_outcome.kind = "raise"
           /\ v_outcome.exc = Steps[Len(Steps)].fail
           /\ v_outcome.exc # ""

\* a request without 'id' has been answered: the GET went to .../users/None
C8_Witness ==
    /\ v_pc = "returned"
    /\ "id" \notin DOMAIN v_request
    /\ v_user_id = NoneV
    /\ v_trace[4].text = <<"https://api.example.com/users/", "N", "o", "n", "e">>
    /\ v_handled = 1

(***************************************************************************)
(* Properties of process_data (SpecProcess).                               *)
(***************************************************************************)
IsMapping == pd_arg0.k = "dict"

Missing(key) == key \notin DOMAIN pd_arg0.m

\* the text the claim describes, from the argument as it was passed
ClaimedName == IF Missing("name") THEN <<>> ELSE Upper(pd_arg0.m["name"].s)
ClaimedEmail == IF Missing("email") THEN <<>> ELSE Lower(pd_arg0.m["email"].s)
ClaimedAge == IF Missing("age") THEN <<"0">> ELSE IntStr(pd_arg0.m["age"].n)
ClaimedText ==
    ClaimedName \o <<" ", "-", " ">> \o ClaimedEmail \o <<" ", "-", " ">> \o ClaimedAge
        \o <<" ", "y", "e", "a", "r", "s", " ", "o", "l", "d">>

AgeIsInt == Missing("age") \/ pd_arg0.m["age"].t = "int"
NameIsStr == Missing("name") \/ pd_arg0.m["name"].t = "str"
EmailIsStr == Missing("email") \/ pd_arg0.m["email"].t = "str"

\* C9 as stated: for every mapping, process_data returns the described text
\* and leaves data as it was.
C9_AsStated ==
    (pd_pc = "done" /\ IsMapping) =>
        /\ pd_outcome.kind = "return"
        /\ AgeIsInt => pd_outcome.val = ClaimedText
        /\ pd_data = pd_arg0

\* C9 (amended): for every mapping whose "name" and "email" values, where
\* present, are strings and whose "age" value, where present, is an integer,
\* process_data returns name upper-cased, " - ", email lower-cased, " - ", the
\* decimal text of age and " years old", a missing name or email contributing
\* the empty string and a missing age 0; data is not modified, whatever it holds.
C9_ProcessDataText ==
    (pd_pc = "done" /\ IsMapping) =>
        /\ (NameIsStr /\ EmailIsStr /\ AgeIsInt) =>
               /\ pd_outcome.kind = "return"
               /\ pd_outcome.val = ClaimedText
        /\ pd_arg0.m = <<>> =>
               pd_outcome.val = <<" ", "-", " ", " ", "-", " ", "0", " ", "y", "e", "a",
                                  "r", "s", " ", "o", "l", "d">>
        /\ pd_data = pd_arg0

\* process_data has returned "ASS - bsz - -12 years old" for a name whose
\* upper-casing is longer than the name
C9_Witness ==
    /\ pd_pc = "done"
    /\ pd_arg0 = DictObj([key \in Keys |->
                    CASE key = "name" -> StrV(<<"a", "sz">>)
                      [] key = "email" -> StrV(<<"B", "sz">>)
                      [] OTHER -> IntV(-12)])
    /\ pd_outcome.kind = "return"
    /\ pd_outcome.val = <<"A", "S", "S", " ", "-", " ", "b", "sz", " ", "-", " ", "-",
                          "1", "2", " ", "y", "e", "a", "r", "s", " ", "o", "l", "d">>

(***************************************************************************)
(* Properties of bad_function and BadClass.method (SpecBad).               *)
(***************************************************************************)
\* C10: bad_function returns 3 on every call; BadClass.method returns on every
\* call a list [1,2,3,4,5] that no earlier call returned, whatever callers did
\* to the lists they were handed; the name list is bound to that list inside
\* the method only, and resolves to the builtin everywhere else.
C10_Results ==
    /\ b_last = "bad_function" => b_ret = Binding("int", 3)
    /\ b_last = "method" =>
           /\ b_ret = Binding("ref", held[Len(held)])
           /\ heap[b_ret.id] = <<1, 2, 3, 4, 5>>
    /\ \A i, j \in 1..Len(held) : i # j => held[i] # held[j]
    /\ builtins_ns["list"] = BuiltinList
    /\ "list" \notin DOMAIN globals_ns
    /\ b_pc \in {"idle", "entered"} => Resolve("list", b_frame) = BuiltinList
    /\ b_pc = "assigned" =>
           /\ Resolve("list", b_frame) = Binding("ref", Len(heap))
           /\ heap[Len(heap)] = <<1, 2, 3, 4, 5>>

\* method has just returned a second list after a caller changed the first,
\* and bad_function has been called
C10_Witness ==
    /\ b_last = "method"
    /\ Len(held) >= 2
    /\ heap[held[1]] # <<1, 2, 3, 4, 5>>
    /\ stdout # <<>>

====
